---------------------------- MODULE Spec2Model ----------------------------
(***************************************************************************)
(* Model of snippets/serializers.py: the explicit SnippetSerializer (six   *)
(* declared fields, create, update) and the model-derived                  *)
(* SnippetModelSerializer, together with the Snippet table they persist to.*)
(*                                                                         *)
(* Text is a sequence of Unicode code points, so that trimming and         *)
(* length limits are computed and not assumed.  A Python/JSON value is a   *)
(* tagged record (Str, Bool, Num, Null); a mapping (inbound data,          *)
(* validated_data, a table row) is a function from key names to values.    *)
(***************************************************************************)
EXTENDS Integers, Sequences, FiniteSets, TLC

VARIABLES
    store,      \* rows of the Snippet table written through SnippetSerializer
    nextId,     \* the table's auto-increment counter
    last,       \* the last SnippetSerializer call: its arguments and what it produced
    storeM,     \* the same table, written through SnippetModelSerializer
    nextIdM,    \* its auto-increment counter
    lastM       \* the last SnippetModelSerializer call

vars == <<store, nextId, last, storeM, nextIdM, lastM>>

---------------------------------------------------------------------------
(* Values *)

Str(s)  == [k |-> "str",  s |-> s,    b |-> FALSE, n |-> 0]
Bool(b) == [k |-> "bool", s |-> <<>>, b |-> b,     n |-> 0]
Num(n)  == [k |-> "int",  s |-> <<>>, b |-> FALSE, n |-> n]
Null    == [k |-> "null", s |-> <<>>, b |-> FALSE, n |-> 0]
\* a key that the inbound mapping does not carry (rest_framework.fields.empty)
Absent  == [k |-> "absent", s |-> <<>>, b |-> FALSE, n |-> 0]

EmptyMap == [key \in {} |-> Null]

FieldNames == {"id", "title", "code", "linenos", "language", "style"}

\* the mapping that holds opts[key] for every key whose option is not Absent
MkMapping(opts) ==
    [key \in {f \in DOMAIN opts : opts[f].k # "absent"} |-> opts[key]]

Repeat(c, n) == [i \in 1..n |-> c]

DigitChar == <<48, 49, 50, 51, 52, 53, 54, 55, 56, 57>>    \* "0" .. "9"

RECURSIVE Digits(_)
Digits(n) ==
    IF n < 10 THEN <<DigitChar[n + 1]>>
    ELSE Digits(n \div 10) \o <<DigitChar[(n % 10) + 1]>>

\* Python's str(value)
PyStr(v) ==
    CASE v.k = "str"  -> v.s
      [] v.k = "int"  -> IF v.n < 0 THEN <<45 (* - *)>> \o Digits(-v.n) ELSE Digits(v.n)
      [] v.k = "bool" -> IF v.b THEN <<84, 114, 117, 101>>          \* "True"
                                ELSE <<70, 97, 108, 115, 101>>     \* "False"
      [] v.k = "null" -> <<78, 111, 110, 101>>    \* "None"
      [] OTHER        -> <<60, 101, 109, 112, 116, 121, 62>>    \* "<empty>"

\* the characters str.strip() removes (str.isspace): \t \n \v \f \r,
\* U+001C..U+001F, space, U+0085, U+00A0, U+1680, U+2000..U+200A, U+2028,
\* U+2029, U+202F, U+205F, U+3000
Whitespace ==
    (9..13) \cup (28..32) \cup {133, 160, 5760} \cup (8192..8202)
        \cup {8232, 8233, 8239, 8287, 12288}

RECURSIVE LStrip(_)
LStrip(s) ==
    IF s # <<>> /\ Head(s) \in Whitespace THEN LStrip(Tail(s)) ELSE s

RECURSIVE RStrip(_)
RStrip(s) ==
    IF s # <<>> /\ s[Len(s)] \in Whitespace
    THEN RStrip(SubSeq(s, 1, Len(s) - 1)) ELSE s

\* Python's str.strip()
Strip(s) == RStrip(LStrip(s))

---------------------------------------------------------------------------
(* The enumerations and the Snippet entity (snippets/models.py) *)

S_python   == <<112, 121, 116, 104, 111, 110>>    \* "python"
S_clipper  == <<67, 108, 105, 112, 112, 101, 114>>    \* "Clipper"
S_friendly == <<102, 114, 105, 101, 110, 100, 108, 121>>    \* "friendly"
S_autumn   == <<97, 117, 116, 117, 109, 110>>    \* "autumn"

LANGUAGE_CHOICES == {S_python, S_clipper}
STYLE_CHOICES    == {S_friendly, S_autumn}

TitleMaxLength == 100

\* the value a Snippet column takes when create() is given no keyword for it
Snippet_defaults ==
    [title    |-> Str(<<>>),
     code     |-> Str(<<>>),
     linenos  |-> Bool(FALSE),
     language |-> Str(S_python),
     style    |-> Str(S_friendly)]

---------------------------------------------------------------------------
(* Field declarations of SnippetSerializer.  required follows the          *)
(* framework's rule: unless given, a field is required iff it has no       *)
(* default and is not read-only.  max_length -1 stands for no limit.       *)

SnippetSerializer_id_writable ==
    [name |-> "id", kind |-> "IntegerField", read_only |-> FALSE,
     required |-> FALSE, allow_blank |-> FALSE, max_length |-> -1,
     has_default |-> FALSE, default |-> Null, choices |-> {}]

SnippetSerializer_id ==
    [name |-> "id", kind |-> "IntegerField", read_only |-> TRUE,
     required |-> FALSE, allow_blank |-> FALSE, max_length |-> -1,
     has_default |-> FALSE, default |-> Null, choices |-> {}]

SnippetSerializer_title_unbounded ==
    [name |-> "title", kind |-> "CharField", read_only |-> FALSE,
     required |-> FALSE, allow_blank |-> TRUE, max_length |-> -1,
     has_default |-> FALSE, default |-> Null, choices |-> {}]

SnippetSerializer_title_with_default ==
    [name |-> "title", kind |-> "CharField", read_only |-> FALSE,
     required |-> FALSE, allow_blank |-> TRUE, max_length |-> TitleMaxLength,
     has_default |-> TRUE, default |-> Str(<<>>), choices |-> {}]

SnippetSerializer_title ==
    [name |-> "title", kind |-> "CharField", read_only |-> FALSE,
     required |-> FALSE, allow_blank |-> TRUE, max_length |-> TitleMaxLength,
     has_default |-> FALSE, default |-> Null, choices |-> {}]

SnippetSerializer_code_optional ==
    [name |-> "code", kind |-> "CharField", read_only |-> FALSE,
     required |-> FALSE, allow_blank |-> FALSE, max_length |-> -1,
     has_default |-> FALSE, default |-> Null, choices |-> {}]

SnippetSerializer_code ==
    [name |-> "code", kind |-> "CharField", read_only |-> FALSE,
     required |-> TRUE, allow_blank |-> FALSE, max_length |-> -1,
     has_default |-> FALSE, default |-> Null, choices |-> {}]

SnippetSerializer_linenos ==
    [name |-> "linenos", kind |-> "BooleanField", read_only |-> FALSE,
     required |-> FALSE, allow_blank |-> FALSE, max_length |-> -1,
     has_default |-> FALSE, default |-> Null, choices |-> {}]

SnippetSerializer_language ==
    [name |-> "language", kind |-> "ChoiceField", read_only |-> FALSE,
     required |-> FALSE, allow_blank |-> FALSE, max_length |-> -1,
     has_default |-> TRUE, default |-> Str(S_python),
     choices |-> LANGUAGE_CHOICES]

SnippetSerializer_style ==
    [name |-> "style", kind |-> "ChoiceField", read_only |-> FALSE,
     required |-> FALSE, allow_blank |-> FALSE, max_length |-> -1,
     has_default |-> TRUE, default |-> Str(S_friendly),
     choices |-> STYLE_CHOICES]

\* the declared fields, in declaration order
SnippetSerializer_fields ==
    <<SnippetSerializer_id, SnippetSerializer_title, SnippetSerializer_code,
      SnippetSerializer_linenos, SnippetSerializer_language,
      SnippetSerializer_style>>

---------------------------------------------------------------------------
(* Field validation (Field.run_validation of each declared field class) *)

\* BooleanField.TRUE_VALUES and FALSE_VALUES, the string members (the
\* spellings of rest_framework 3.9 to 3.13); 1, 0, True and False are
\* handled by kind in ToInternalValue
TRUE_VALUES ==
    {
     <<116>>, <<84>>, <<121>>,    \* t T y
     <<89>>, <<121, 101, 115>>, <<89, 69, 83>>,    \* Y yes YES
     <<116, 114, 117, 101>>, <<84, 114, 117, 101>>, <<84, 82, 85, 69>>,    \* true True TRUE
     <<111, 110>>, <<79, 110>>, <<79, 78>>,    \* on On ON
     <<49>> }    \* 1

FALSE_VALUES ==
    {
     <<102>>, <<70>>, <<110>>,    \* f F n
     <<78>>, <<110, 111>>, <<78, 79>>,    \* N no NO
     <<102, 97, 108, 115, 101>>, <<70, 97, 108, 115, 101>>, <<70, 65, 76, 83, 69>>,    \* false False FALSE
     <<111, 102, 102>>, <<79, 102, 102>>, <<79, 70, 70>>,    \* off Off OFF
     <<48>> }    \* 0

Value(v)  == [status |-> "value", value |-> v,    code |-> ""]
Skip      == [status |-> "skip",  value |-> Null, code |-> ""]
Fail(c)   == [status |-> "error", value |-> Null, code |-> c]

\* to_internal_value followed by the field's validators
ToInternalValue(f, v) ==
    CASE f.kind = "CharField" ->
            IF v.k \notin {"str", "int"} THEN Fail("invalid")
            ELSE LET value == Strip(PyStr(v))
                 IN  IF f.max_length >= 0 /\ Len(value) > f.max_length
                     THEN Fail("max_length")
                     ELSE Value(Str(value))
      [] f.kind = "BooleanField" ->
            CASE v.k = "bool" -> Value(v)
              [] v.k = "int" /\ v.n = 1 -> Value(Bool(TRUE))
              [] v.k = "int" /\ v.n = 0 -> Value(Bool(FALSE))
              [] v.k = "str" /\ v.s \in TRUE_VALUES  -> Value(Bool(TRUE))
              [] v.k = "str" /\ v.s \in FALSE_VALUES -> Value(Bool(FALSE))
              [] OTHER -> Fail("invalid")
      [] f.kind = "ChoiceField" ->
            IF v.k = "str" /\ v.s = <<>> /\ f.allow_blank THEN Value(Str(<<>>))
            ELSE IF PyStr(v) \in f.choices THEN Value(Str(PyStr(v)))
            ELSE Fail("invalid_choice")
      [] OTHER ->
            IF v.k = "int" THEN Value(v) ELSE Fail("invalid")

\* validate_empty_values, then ToInternalValue; v is Absent for a missing key
ValidateField(f, v, partial) ==
    IF v.k = "absent" THEN
        IF partial THEN Skip
        ELSE IF f.required THEN Fail("required")
        ELSE IF f.has_default THEN Value(f.default)
        ELSE Skip
    ELSE IF v.k = "null" THEN Fail("null")
    ELSE ToInternalValue(f, v)

\* CharField tests for the blank string before anything else
RunValidation(f, v, partial) ==
    IF f.kind = "CharField" /\ v.k \in {"str", "int"} /\ Strip(PyStr(v)) = <<>>
    THEN IF f.allow_blank THEN Value(Str(<<>>)) ELSE Fail("blank")
    ELSE ValidateField(f, v, partial)

GetValue(data, name) == IF name \in DOMAIN data THEN data[name] ELSE Absent

FieldNamed(fields, name) ==
    fields[CHOOSE i \in DOMAIN fields : fields[i].name = name]

\* Serializer.is_valid: every writable field is validated; the outcome is
\* either validated_data or a per-field error mapping
Validate(fields, data, partial) ==
    LET writable == {fields[i].name : i \in {j \in DOMAIN fields : ~fields[j].read_only}}
        res(name) == RunValidation(FieldNamed(fields, name), GetValue(data, name), partial)
        bad  == {name \in writable : res(name).status = "error"}
        good == {name \in writable : res(name).status = "value"}
    IN  [valid          |-> bad = {},
         validated_data |-> IF bad = {} THEN [name \in good |-> res(name).value]
                            ELSE EmptyMap,
         errors         |-> [name \in bad |-> res(name).code]]

---------------------------------------------------------------------------
(* Inbound mappings *)

T_new    == <<110, 101, 119>>    \* "new"
T_max    == Repeat(97, TitleMaxLength)    \* "a" * 100
T_long   == Repeat(97, TitleMaxLength + 1)
T_padded == T_max \o <<32>>    \* 100 letters and a space
C_x      == <<120>>    \* "x"
C_raw    == <<32, 120, 10>>    \* " x\n"
C_feed   == <<12, 120>>    \* form feed, "x"
L_TRUE   == <<84, 82, 85, 69>>    \* "TRUE"
S_bogus  == <<122, 122>>    \* "zz"

ClientId == Num(99)

\* the inbound mappings the validation-only specification draws from
WideInputs ==
    { MkMapping([id |-> i, title |-> t, code |-> c, linenos |-> l,
                 language |-> g, style |-> s]) :
        i \in {Absent, ClientId},
        t \in {Absent, Str(<<>>), Str(T_new), Str(T_max), Str(T_long), Str(T_padded)},
        c \in {Absent, Str(C_x), Str(C_raw), Str(C_feed), Str(<<>>), Null},
        l \in {Absent, Bool(TRUE), Str(L_TRUE), Str(S_bogus)},
        g \in {Absent, Str(S_clipper), Str(S_bogus), Bool(TRUE)},
        s \in {Absent, Str(S_autumn), Str(S_bogus)} }

\* the inbound mappings the persistence specifications draw from
Inputs ==
    { MkMapping([id |-> i, title |-> t, code |-> c, linenos |-> l,
                 language |-> g, style |-> Absent]) :
        i \in {Absent, ClientId},
        t \in {Absent, Str(T_new)},
        c \in {Absent, Str(C_raw)},
        l \in {Absent, Bool(TRUE)},
        g \in {Absent, Str(S_clipper), Str(S_bogus)} }

\* the inbound mappings of the side-by-side specification
EqInputs ==
    { MkMapping([id |-> Absent, title |-> t, code |-> c, linenos |-> l,
                 language |-> Absent, style |-> Absent]) :
        t \in {Absent, Str(T_new)},
        c \in {Absent, Str(C_raw)},
        l \in {Absent, Bool(TRUE)} }

MaxSnippets == 2

---------------------------------------------------------------------------
(* The Snippet table (the persistence collaborator) *)

\* Snippet.objects.create(**kwargs): a new row, its id taken from the
\* table's counter unless a keyword sets it
Objects_create(kwargs, rows, next) ==
    LET row == [key \in FieldNames |->
                  IF key \in DOMAIN kwargs THEN kwargs[key]
                  ELSE IF key = "id" THEN Num(next)
                  ELSE Snippet_defaults[key]]
    IN  [row |-> row, rows |-> Append(rows, row), next |-> next + 1]

\* instance.save(): the row with the instance's id is overwritten
Model_save(instance, rows) ==
    [i \in DOMAIN rows |->
        IF rows[i]["id"] = instance["id"] THEN instance ELSE rows[i]]

---------------------------------------------------------------------------
(* SnippetSerializer.create and SnippetSerializer.update *)

\* Snippet(**validated_data) that is never saved
SnippetSerializer_create_unsaved(validated_data, rows, next) ==
    [Objects_create(validated_data, rows, next) EXCEPT !.rows = rows, !.next = next]

SnippetSerializer_create_without_language(validated_data, rows, next) ==
    Objects_create(
        [key \in DOMAIN validated_data \ {"language"} |-> validated_data[key]],
        rows, next)

SnippetSerializer_create(validated_data, rows, next) ==
    Objects_create(validated_data, rows, next)

\* validated_data.get(key, default=value): dict.get takes its arguments by
\* position only, so the call raises TypeError whatever the key and mapping
DictGetKeyword(d, key, value) ==
    [raised |-> TRUE, value |-> value]

Raised(instance) ==
    [raised |-> TRUE, exc |-> "TypeError", saved |-> FALSE, instance |-> instance]

\* an update that assigns every validated key, linenos included, and saves
SnippetSerializer_update_with_linenos(instance, validated_data) ==
    [raised |-> FALSE, exc |-> "", saved |-> TRUE,
     instance |-> [key \in DOMAIN instance |->
                     IF key \in DOMAIN validated_data \ {"id"}
                     THEN validated_data[key] ELSE instance[key]]]

\* the four assignments run in order; the first call that raises ends the
\* method before instance.save()
SnippetSerializer_update(instance, validated_data) ==
    LET t  == DictGetKeyword(validated_data, "title", instance["title"])
        i1 == [instance EXCEPT !["title"] = t.value]
        c  == DictGetKeyword(validated_data, "code", i1["code"])
        i2 == [i1 EXCEPT !["code"] = c.value]
        g  == DictGetKeyword(validated_data, "language", i2["language"])
        i3 == [i2 EXCEPT !["language"] = g.value]
        s  == DictGetKeyword(validated_data, "style", i3["style"])
        i4 == [i3 EXCEPT !["style"] = s.value]
    IN  IF t.raised THEN Raised(instance)
        ELSE IF c.raised THEN Raised(i1)
        ELSE IF g.raised THEN Raised(i2)
        ELSE IF s.raised THEN Raised(i3)
        ELSE [raised |-> FALSE, exc |-> "", saved |-> TRUE, instance |-> i4]

---------------------------------------------------------------------------
(* SnippetModelSerializer: fields, create and update derived from Snippet *)

SnippetModelSerializer_language ==
    [SnippetSerializer_language EXCEPT !.has_default = FALSE, !.default = Null]

SnippetModelSerializer_style ==
    [SnippetSerializer_style EXCEPT !.has_default = FALSE, !.default = Null]

\* Meta.fields, in order
SnippetModelSerializer_fields ==
    <<SnippetSerializer_id, SnippetSerializer_title, SnippetSerializer_code,
      SnippetSerializer_linenos, SnippetModelSerializer_language,
      SnippetModelSerializer_style>>

SnippetModelSerializer_create(validated_data, rows, next) ==
    Objects_create(validated_data, rows, next)

\* setattr(instance, attr, value) for every validated item, then save
SnippetModelSerializer_update(instance, validated_data) ==
    [raised |-> FALSE, exc |-> "", saved |-> TRUE,
     instance |-> [key \in DOMAIN instance |->
                     IF key \in DOMAIN validated_data
                     THEN validated_data[key] ELSE instance[key]]]

---------------------------------------------------------------------------
(* Serialization: Serializer.to_representation *)

FieldToRepresentation(f, v) ==
    CASE f.kind = "CharField"    -> Str(PyStr(v))
      [] f.kind = "BooleanField" ->
            IF v.k = "str" /\ v.s \in TRUE_VALUES THEN Bool(TRUE)
            ELSE IF v.k = "str" /\ v.s \in FALSE_VALUES THEN Bool(FALSE)
            ELSE IF v.k = "bool" THEN v
            ELSE Bool(v.k = "int" /\ v.n # 0)
      [] f.kind = "ChoiceField"  ->
            IF PyStr(v) \in f.choices THEN Str(PyStr(v)) ELSE v
      [] OTHER -> v

to_representation_without_id(fields, instance) ==
    [i \in 1..(Len(fields) - 1) |->
        <<fields[i + 1].name,
          FieldToRepresentation(fields[i + 1], instance[fields[i + 1].name])>>]

\* serializer.data: one (key, value) pair per declared field, in order
to_representation(fields, instance) ==
    [i \in 1..Len(fields) |->
        <<fields[i].name, FieldToRepresentation(fields[i], instance[fields[i].name])>>]

\* the mapping a JSON round trip of serializer.data hands back
AsMapping(pairs) ==
    [key \in {pairs[i][1] : i \in DOMAIN pairs} |->
        pairs[CHOOSE i \in DOMAIN pairs : pairs[i][1] = key][2]]

---------------------------------------------------------------------------
(* Serializer calls.  cls selects the serializer class. *)

Fields(cls) ==
    IF cls = "SnippetSerializer" THEN SnippetSerializer_fields
    ELSE SnippetModelSerializer_fields

Create(cls, validated_data, rows, next) ==
    IF cls = "SnippetSerializer"
    THEN SnippetSerializer_create(validated_data, rows, next)
    ELSE SnippetModelSerializer_create(validated_data, rows, next)

Update(cls, instance, validated_data) ==
    IF cls = "SnippetSerializer"
    THEN SnippetSerializer_update(instance, validated_data)
    ELSE SnippetModelSerializer_update(instance, validated_data)

NoCall ==
    [op |-> "none", data |-> EmptyMap, partial |-> FALSE, target |-> 0,
     valid |-> FALSE, validated_data |-> EmptyMap, errors |-> EmptyMap,
     outcome |-> "none", instance |-> <<>>, result |-> <<>>, plain |-> <<>>]

Called(op, data, partial, v) ==
    [NoCall EXCEPT !.op = op, !.data = data, !.partial = partial,
                   !.valid = v.valid, !.validated_data = v.validated_data,
                   !.errors = v.errors,
                   !.outcome = IF v.valid THEN "ok" ELSE "ValidationError"]

\* serializer = cls(data=data, partial=partial); serializer.is_valid()
IsValidCall(cls, data, partial) ==
    Called("validate", data, partial, Validate(Fields(cls), data, partial))

\* serializer = cls(data=data); serializer.is_valid(); serializer.save()
\* save() runs create() only on valid data
CreateCall(cls, rows, next, data) ==
    LET v == Validate(Fields(cls), data, FALSE)
        c == Create(cls, v.validated_data, rows, next)
    IN  IF ~v.valid
        THEN [rows |-> rows, next |-> next, last |-> Called("create", data, FALSE, v)]
        ELSE [rows |-> c.rows, next |-> c.next,
              last |-> [Called("create", data, FALSE, v) EXCEPT !.result = <<c.row>>]]

\* serializer = cls(rows[i], data=data, partial=partial);
\* serializer.is_valid(); serializer.save()
UpdateCall(cls, rows, i, data, partial) ==
    LET v    == Validate(Fields(cls), data, partial)
        u    == Update(cls, rows[i], v.validated_data)
        call == [Called("update", data, partial, v) EXCEPT
                    !.target = i, !.instance = <<rows[i]>>]
    IN  IF ~v.valid THEN [rows |-> rows, last |-> call]
        ELSE [rows |-> IF u.saved THEN Model_save(u.instance, rows) ELSE rows,
              last |-> [call EXCEPT
                          !.outcome = IF u.raised THEN u.exc ELSE "ok",
                          !.result  = IF u.raised THEN <<>> ELSE <<u.instance>>]]

\* cls(rows[i]).data
DataCall(cls, rows, i) ==
    [NoCall EXCEPT !.op = "data", !.target = i, !.outcome = "ok",
                   !.instance = <<rows[i]>>,
                   !.plain = to_representation(Fields(cls), rows[i])]

---------------------------------------------------------------------------
(* State machine.  A serializer lives for one request: a call is made when *)
(* none is in progress and Respond discards it.                            *)

Init ==
    /\ store = <<>>
    /\ nextId = 1
    /\ last = NoCall
    /\ storeM = <<>>
    /\ nextIdM = 1
    /\ lastM = NoCall

Idle == last.op = "none"

modelVars == <<storeM, nextIdM, lastM>>

IsValid ==
    \E data \in Inputs, partial \in BOOLEAN :
        /\ Idle
        /\ last' = IsValidCall("SnippetSerializer", data, partial)
        /\ UNCHANGED <<store, nextId, modelVars>>

SaveCreate ==
    \E data \in Inputs :
        /\ Idle
        /\ Len(store) < MaxSnippets
        /\ LET r == CreateCall("SnippetSerializer", store, nextId, data)
           IN  /\ store' = r.rows
               /\ nextId' = r.next
               /\ last' = r.last
        /\ UNCHANGED modelVars

SaveUpdate ==
    \E i \in DOMAIN store, data \in Inputs, partial \in BOOLEAN :
        /\ Idle
        /\ LET r == UpdateCall("SnippetSerializer", store, i, data, partial)
           IN  /\ store' = r.rows
               /\ last' = r.last
        /\ UNCHANGED <<nextId, modelVars>>

Data ==
    \E i \in DOMAIN store :
        /\ Idle
        /\ last' = DataCall("SnippetSerializer", store, i)
        /\ UNCHANGED <<store, nextId, modelVars>>

Respond ==
    /\ ~Idle
    /\ last' = NoCall
    /\ lastM' = NoCall
    /\ UNCHANGED <<store, nextId, storeM, nextIdM>>

Next == IsValid \/ SaveCreate \/ SaveUpdate \/ Data \/ Respond

Spec == Init /\ [][Next]_vars

(* Validation alone, over the wide set of inbound mappings *)

IsValidWide ==
    \E data \in WideInputs, partial \in BOOLEAN :
        /\ Idle
        /\ last' = IsValidCall("SnippetSerializer", data, partial)
        /\ UNCHANGED <<store, nextId, modelVars>>

NextValidate == IsValidWide \/ Respond

SpecValidate == Init /\ [][NextValidate]_vars

(* Both serializers side by side: the same call is made on each, each on   *)
(* its own copy of the table.                                              *)

EqIsValid ==
    \E data \in EqInputs, partial \in BOOLEAN :
        /\ Idle
        /\ last' = IsValidCall("SnippetSerializer", data, partial)
        /\ lastM' = IsValidCall("SnippetModelSerializer", data, partial)
        /\ UNCHANGED <<store, nextId, storeM, nextIdM>>

EqSaveCreate ==
    \E data \in EqInputs :
        /\ Idle
        /\ Len(store) < MaxSnippets
        /\ Len(storeM) < MaxSnippets
        /\ LET r == CreateCall("SnippetSerializer", store, nextId, data)
               m == CreateCall("SnippetModelSerializer", storeM, nextIdM, data)
           IN  /\ store' = r.rows
               /\ nextId' = r.next
               /\ last' = r.last
               /\ storeM' = m.rows
               /\ nextIdM' = m.next
               /\ lastM' = m.last

EqSaveUpdate ==
    \E i \in DOMAIN store \cap DOMAIN storeM, data \in EqInputs, partial \in BOOLEAN :
        /\ Idle
        /\ LET r == UpdateCall("SnippetSerializer", store, i, data, partial)
               m == UpdateCall("SnippetModelSerializer", storeM, i, data, partial)
           IN  /\ store' = r.rows
               /\ last' = r.last
               /\ storeM' = m.rows
               /\ lastM' = m.last
        /\ UNCHANGED <<nextId, nextIdM>>

EqData ==
    \E i \in DOMAIN store \cap DOMAIN storeM :
        /\ Idle
        /\ last' = DataCall("SnippetSerializer", store, i)
        /\ lastM' = DataCall("SnippetModelSerializer", storeM, i)
        /\ UNCHANGED <<store, nextId, storeM, nextIdM>>

NextEq == EqIsValid \/ EqSaveCreate \/ EqSaveUpdate \/ EqData \/ Respond

SpecEq == Init /\ [][NextEq]_vars


---------------------------------------------------------------------------
(* Properties *)

UpdatedFields == {"title", "code", "language", "style"}
WritableNames == FieldNames \ {"id"}

InChoices(v, choices) == v.k = "str" /\ v.s \in choices

\* C1: update completes without error, and title, code, language and style
\* of the returned and persisted snippet hold the validated value when the
\* key is present and the previous value when it is absent.
C1_UpdateAppliesValidatedData ==
    (last.op = "update" /\ last.valid) =>
        /\ last.outcome = "ok"
        /\ Len(last.result) = 1
        /\ \A key \in UpdatedFields :
              LET expected == IF key \in DOMAIN last.validated_data
                              THEN last.validated_data[key]
                              ELSE last.instance[1][key]
              IN  /\ last.result[1][key] = expected
                  /\ store[last.target][key] = expected

\* C2: a mapping without a code key is rejected by full validation with a
\* ValidationError that carries a message for code, and a rejected mapping
\* leaves the table as it was.
C2_MissingCodeRejected ==
    [][ /\ (/\ last'.op \in {"validate", "create", "update"}
            /\ ~last'.partial
            /\ "code" \notin DOMAIN last'.data)
           => (/\ ~last'.valid
               /\ last'.outcome = "ValidationError"
               /\ "code" \in DOMAIN last'.errors
               /\ last'.errors["code"] = "required")
        /\ last'.outcome = "ValidationError"
           => (store' = store /\ nextId' = nextId) ]_vars

C2_Witness ==
    /\ last.op = "create"
    /\ "code" \notin DOMAIN last.data
    /\ {"title", "linenos", "language"} \subseteq DOMAIN last.data
    /\ last.outcome = "ValidationError"
    /\ Len(store) = 1

OthersAcceptable(d) ==
    /\ "language" \in DOMAIN d => InChoices(d["language"], LANGUAGE_CHOICES)
    /\ "style" \in DOMAIN d => InChoices(d["style"], STYLE_CHOICES)
    /\ "linenos" \in DOMAIN d =>
          \/ d["linenos"].k = "bool"
          \/ d["linenos"].k = "str" /\ d["linenos"].s \in TRUE_VALUES \cup FALSE_VALUES
    /\ "code" \in DOMAIN d /\ d["code"].k = "str" /\ Strip(d["code"].s) # <<>>

TitleLength(s, trimmed) == IF trimmed THEN Len(Strip(s)) ELSE Len(s)

C3_Rejections(trimmed) ==
    last.op = "validate" =>
        LET d == last.data IN
        /\ ("language" \in DOMAIN d /\ ~InChoices(d["language"], LANGUAGE_CHOICES))
              => (~last.valid /\ "language" \in DOMAIN last.errors)
        /\ ("style" \in DOMAIN d /\ ~InChoices(d["style"], STYLE_CHOICES))
              => (~last.valid /\ "style" \in DOMAIN last.errors)
        /\ ("title" \in DOMAIN d /\ d["title"].k = "str"
                /\ TitleLength(d["title"].s, trimmed) > TitleMaxLength)
              => (~last.valid /\ "title" \in DOMAIN last.errors)
        /\ ("title" \in DOMAIN d /\ d["title"] = Str(<<>>) /\ OthersAcceptable(d))
              => (last.valid /\ last.validated_data["title"] = Str(<<>>))

\* C3 as stated: a language or style outside its set, or a title of more
\* than 100 characters, is rejected; a valid code with an empty title is
\* accepted.
C3_LongTitleRejected == C3_Rejections(FALSE)

\* C3 as amended: the title limit applies to the title with its leading and
\* trailing whitespace removed.
C3_LongTrimmedTitleRejected == C3_Rejections(TRUE)

C3_Witness ==
    /\ last.op = "validate"
    /\ "title" \in DOMAIN last.data /\ last.data["title"] = Str(T_long)
    /\ "language" \in DOMAIN last.data /\ last.data["language"] = Str(S_bogus)
    /\ "style" \in DOMAIN last.data /\ last.data["style"] = Str(S_bogus)
    /\ last.errors = [title |-> "max_length", language |-> "invalid_choice",
                      style |-> "invalid_choice"]

\* C4 as stated: accepted data holds exactly title, code, linenos, language
\* and style, and an absent optional key holds its default.
C4_AllDefaultsFilled ==
    (last.op = "validate" /\ ~last.partial /\ last.valid) =>
        /\ DOMAIN last.validated_data = WritableNames
        /\ \A key \in WritableNames \ (DOMAIN last.data \cup {"code"}) :
              last.validated_data[key] = Snippet_defaults[key]

\* C4 as amended: accepted data never holds id; it holds code, language and
\* style, the last two with their defaults when absent; title and linenos
\* are present exactly when the inbound mapping carries them.
C4_DeclaredDefaultsFilled ==
    (last.op = "validate" /\ ~last.partial /\ last.valid) =>
        /\ DOMAIN last.validated_data =
              {"code", "language", "style"} \cup ({"title", "linenos"} \cap DOMAIN last.data)
        /\ "language" \notin DOMAIN last.data
              => last.validated_data["language"] = Str(S_python)
        /\ "style" \notin DOMAIN last.data
              => last.validated_data["style"] = Str(S_friendly)

C4_Witness ==
    /\ last.op = "validate" /\ ~last.partial /\ last.valid
    /\ DOMAIN last.data = {"id", "code"}
    /\ last.validated_data = [code |-> Str(C_x), language |-> Str(S_python),
                              style |-> Str(S_friendly)]

\* C5: create on validated data succeeds, appends exactly one snippet whose
\* fields are those of validated_data (the entity default for a key it does
\* not hold), whose id is the table's next id, and changes no other row.
C5_CreateAddsOneSnippet ==
    [][ (last'.op = "create" /\ last'.valid) =>
          /\ last'.outcome = "ok"
          /\ Len(store') = Len(store) + 1
          /\ SubSeq(store', 1, Len(store)) = store
          /\ last'.result = <<store'[Len(store')]>>
          /\ store'[Len(store')]["id"] = Num(nextId)
          /\ nextId' = nextId + 1
          /\ \A key \in WritableNames :
                store'[Len(store')][key] =
                    IF key \in DOMAIN last'.validated_data
                    THEN last'.validated_data[key]
                    ELSE Snippet_defaults[key] ]_vars

C5_Witness ==
    /\ last.op = "create" /\ last.outcome = "ok"
    /\ Len(store) = 2
    /\ "id" \in DOMAIN last.data
    /\ store[2]["language"] = Str(S_clipper)
    /\ store[2]["title"] = Str(T_new)

\* validate(toPlainData(create(validate(input)))) for the snippet just created
RoundTrip ==
    Validate(SnippetSerializer_fields,
             AsMapping(to_representation(SnippetSerializer_fields, last.result[1])),
             FALSE)

\* C6 as stated: the round trip succeeds and yields validate(input).
C6_RoundTripIsValidated ==
    (last.op = "create" /\ last.outcome = "ok") =>
        /\ RoundTrip.valid
        /\ RoundTrip.validated_data = last.validated_data

\* C6 as amended: the round trip succeeds and yields all five writable
\* fields: the value of validate(input) for a key it holds, the entity
\* default for title or linenos when it does not.
C6_RoundTripModuloDefaults ==
    (last.op = "create" /\ last.outcome = "ok") =>
        /\ RoundTrip.valid
        /\ DOMAIN RoundTrip.validated_data = WritableNames
        /\ \A key \in WritableNames :
              RoundTrip.validated_data[key] =
                  IF key \in DOMAIN last.validated_data
                  THEN last.validated_data[key]
                  ELSE Snippet_defaults[key]

C6_Witness ==
    /\ last.op = "create" /\ last.outcome = "ok"
    /\ DOMAIN last.data = {"code", "language"}
    /\ last.data["code"] = Str(C_raw)
    /\ RoundTrip.validated_data =
          [title |-> Str(<<>>), code |-> Str(C_x), linenos |-> Bool(FALSE),
           language |-> Str(S_clipper), style |-> Str(S_friendly)]

\* C7: serializer.data holds the keys id, title, code, linenos, language,
\* style in that order, each with the stored value, and reading it changes
\* neither the snippet nor the table.
C7_PlainDataMatchesRow ==
    [][ last'.op = "data" =>
          /\ store' = store
          /\ nextId' = nextId
          /\ [i \in DOMAIN last'.plain |-> last'.plain[i][1]] =
                <<"id", "title", "code", "linenos", "language", "style">>
          /\ \A i \in DOMAIN last'.plain :
                last'.plain[i][2] = store[last'.target][last'.plain[i][1]]
          /\ last'.instance = <<store[last'.target]>> ]_vars

C7_Witness ==
    /\ last.op = "data"
    /\ last.target = 2
    /\ last.plain = << <<"id", Num(2)>>, <<"title", Str(T_new)>>,
                       <<"code", Str(C_x)>>, <<"linenos", Bool(TRUE)>>,
                       <<"language", Str(S_clipper)>>, <<"style", Str(S_friendly)>> >>

\* C8: run side by side on the same calls, SnippetSerializer and
\* SnippetModelSerializer end every call with the same outcome, the same
\* returned snippet or plain data, and the same persisted rows.
C8_SerializersEquivalent ==
    /\ store = storeM
    /\ nextId = nextIdM
    /\ last.outcome = lastM.outcome
    /\ last.result = lastM.result
    /\ last.plain = lastM.plain

\* C9: every stored id is the one the table assigned at creation (the i-th
\* row created holds id i), so ids are distinct and never change; validated
\* data never holds an id, and an update returns and leaves the id it found.
C9_IdsAreStoreAssigned ==
    /\ \A i \in DOMAIN store : store[i]["id"] = Num(i)
    /\ \A i, j \in DOMAIN store : store[i]["id"] = store[j]["id"] => i = j
    /\ nextId = Len(store) + 1
    /\ "id" \notin DOMAIN last.validated_data
    /\ last.op = "update" => store[last.target]["id"] = last.instance[1]["id"]
    /\ \A i \in DOMAIN last.result : last.result[i]["id"] # ClientId

C9_Witness ==
    /\ Len(store) = 2
    /\ last.op = "update" /\ last.valid /\ last.target = 1
    /\ "id" \in DOMAIN last.data /\ last.data["id"] = ClientId

\* C10: an update changes no row but its target, and of the target nothing
\* but title, code, language and style; linenos stays as stored.
C10_UpdateKeepsLinenos ==
    [][ last'.op = "update" =>
          /\ DOMAIN store' = DOMAIN store
          /\ \A i \in DOMAIN store : \A key \in FieldNames :
                store'[i][key] # store[i][key]
                    => (i = last'.target /\ key \in UpdatedFields)
          /\ store'[last'.target]["linenos"] = store[last'.target]["linenos"]
          /\ \A i \in DOMAIN last'.result :
                last'.result[i]["linenos"] = store[last'.target]["linenos"] ]_vars

C10_Witness ==
    /\ last.op = "update" /\ last.valid
    /\ "linenos" \in DOMAIN last.validated_data
    /\ last.validated_data["linenos"] # last.instance[1]["linenos"]
    /\ store[last.target]["linenos"] = last.instance[1]["linenos"]

=============================================================================
